---- MODULE Spec2Model ----
(***************************************************************************)
(* FX rate service (src/main.py): the GreenGive TTL cache and retry        *)
(* wrapper, the fallback loader, the get_fx_data pipeline, process_rates   *)
(* and the /summary endpoint.                                              *)
(*                                                                         *)
(* Each request is one thread (FastAPI runs a plain "def" endpoint in a    *)
(* worker thread).  A thread's position is pc[p]; one action is one        *)
(* dictionary read, write or delete, one clock read, one fetch attempt,    *)
(* one sleep or one file read of the source.  Spec runs the requests one   *)
(* after the other (a sequential history); SpecConc interleaves them.      *)
(* SpecApi is the HTTP service alone (interleaved /summary requests with    *)
(* any breakdown string), SpecFair adds the scheduling it relies on, and   *)
(* SpecRates runs process_rates on each of a set of inputs.                *)
(* The clock is seen only through time.time() and time.sleep(): each look  *)
(* at it finds that some time in Elapsed has passed since the latest look. *)
(*                                                                         *)
(* Strings are sequences of code points, so that concatenation and the     *)
(* lexicographic order of sorted() are computed, not assumed.  A dict is   *)
(* a function on its key set; {} is the function with the empty domain.    *)
(* None and "no exception" are the empty tuple, a present value v is <<v>>.*)
(* Rates are integers in units of 1/10000; rounded figures are in the same *)
(* unit (4 decimal places).                                                *)
(***************************************************************************)
EXTENDS Integers, Sequences, FiniteSets, TLC

\* ------------------------------------------------------------- bounds
NumProcs == 3
NumConcurrent == 2
NumRequests == 2
NumDates == 3

\* ---------------------------------------------------- program constants
CACHE_TTL == 300
RETRIES == 3
SLEEP_SECONDS == 1
Underscore == 95
ROUND_DIGITS == 4
PERCENT == 100

Procs == 1..NumProcs
\* The requests that run in SpecConc.
ConcProcs == 1..NumConcurrent
\* The requests that run in SpecApi.
ApiProcs == 1..NumRequests

None == <<>>
Some(v) == <<v>>

\* ------------------------------------------------------ the environment
\* The time that may have passed between one look at the clock and the next.
Elapsed == {0, CACHE_TTL}

\* The date strings a request may carry: "1" and "1_1" (any str is accepted),
\* and the (start_date, end_date) pairs the requests are drawn from.
DateStrs == {<<49>>, <<49, Underscore, 49>>}
Ranges == (DateStrs \X DateStrs) \ {<<<<49, Underscore, 49>>, <<49, Underscore, 49>>>>}
Breakdowns == {"day", "none"}
\* breakdown: str = Query("none", enum=[...]): the annotation is str and the enum
\* keyword only annotates the OpenAPI schema, so any string reaches get_summary.
AnyBreakdowns == Breakdowns \cup {"week"}

\* Dates inside a provider response: "1" and "2".
Day1 == <<49>>
Day2 == <<50>>

EmptyDict == [k \in {} |-> 0]
NoRatesDict == [k \in {"base"} |-> "EUR"]
RatesDict(series) == [k \in {"rates"} |-> [d \in DOMAIN series |-> [c \in {"USD"} |-> series[d]]]]
\* {"rates": {"2": {"USD": 1.0}, "1": {"USD": 1.1}}}
SeriesA == [d \in {Day1, Day2} |-> IF d = Day1 THEN 11000 ELSE 10000]
\* {"rates": {"1": {"USD": 1.21}}}
SeriesB == [d \in {Day1} |-> 12100]

\* The inputs of process_rates when it is examined on its own: the dates "1",
\* "10", "2", "3" (the first NumDates of them), rates 0, 1.0, 1.1 and 1.21, and
\* every series over a subset of the dates.
DatePool == <<<<49>>, <<49, 48>>, <<50>>, <<51>>>>
InputDates == {DatePool[i] : i \in 1..NumDates}
RateValues == {0, 10000, 11000, 12100}
RateSeriesInputs == UNION {[S -> RateValues] : S \in SUBSET InputDates}
RawInputs == {EmptyDict, NoRatesDict} \cup {RatesDict(series) : series \in RateSeriesInputs}

\* What the provider can answer with a 2xx status and a JSON body.
Responses == {EmptyDict, RatesDict(SeriesA)}
\* An exception object: its type and, for a failed fetch, the attempt that
\* raised it (each attempt raises an exception object of its own).
Exc(type, n) == [type |-> type, attempt |-> n]
\* The exception types one fetch attempt can raise.
FetchErrors == {"RequestException"}
\* The fallback file: absent, not JSON, or a snapshot.
FileStates == {"missing", "malformed", "ok"}
FallbackData == RatesDict(SeriesB)

\* Values and ttls of the direct GreenGive.set calls.
Values == Responses
TTLs == {CACHE_TTL, 2 * CACHE_TTL}

VARIABLES
    cache,          \* GreenGive._cache
    cache_expiry,   \* GreenGive._cache_expiry
    now,            \* the clock at the latest time.time() or time.sleep()
    setLog,         \* history: per key, the completed set calls [v, t, ttl]
    pc,             \* each thread's position
    op,             \* the entry point the thread runs: "get", "set", "summary"
    key,            \* key / cache_key
    val,            \* value argument of set
    ttl,            \* ttl argument of set
    req,            \* <<start_date, end_date, breakdown>> of a /summary request
    t,              \* the thread's last time.time() reading
    wake,           \* when the thread's time.sleep(1) ends
    seen,           \* history: the expiry GreenGive.get compared the clock with
    ret,            \* what GreenGive.get returned (cached)
    attempt,        \* wrapper: attempt
    last_exception, \* wrapper: last_exception
    caught,         \* get_fx_data: the exception e the wrapper raised (line 97)
    calls,          \* history: how often the wrapped function was invoked
    data,           \* what get_fx_data returned (raw_data)
    fb,             \* history: the state the fallback file was read in
    out,            \* what process_rates returned (result)
    exc             \* the exception that left the entry point

cacheVars == <<cache, cache_expiry, setLog>>
clockVars == <<now>>
argVars == <<op, key, val, ttl, req>>
getVars == <<t, seen, ret>>
retryVars == <<attempt, last_exception, caught, calls, wake>>
resVars == <<data, fb, out, exc>>
vars == <<cache, cache_expiry, now, setLog, pc, op, key, val, ttl, req, t,
          wake, seen, ret, attempt, last_exception, caught, calls, data, fb, out, exc>>

\* ------------------------------------------------------------- helpers
Max(a, b) == IF a >= b THEN a ELSE b
Abs(a) == IF a >= 0 THEN a ELSE -a

\* Faulty variant of DictSet: an existing entry is kept (dict.setdefault).
DictSetDefault(d, k, v) ==
    [x \in DOMAIN d \cup {k} |-> IF x \in DOMAIN d THEN d[x] ELSE v]
\* d[k] = v
DictSet(d, k, v) == [x \in DOMAIN d \cup {k} |-> IF x = k THEN v ELSE d[x]]
\* Faulty variant of DictDel: the del statement is missing.
DictKeep(d, k) == d
\* del d[k]
DictDel(d, k) == [x \in DOMAIN d \ {k} |-> d[x]]

\* f"{start_date}_{end_date}"
CacheKey(start_date, end_date) == start_date \o <<Underscore>> \o end_date

Keys == {CacheKey(r[1], r[2]) : r \in Ranges}

\* Faulty variant of Fresh: an entry still counts at its expiry instant.
FreshAtExpiry(time, expiry) == time <= expiry
\* time.time() < cls._cache_expiry[key]
Fresh(time, expiry) == time < expiry

\* Faulty variant of Expiry: the ttl is stored, not the instant.
ExpiryNotAbsolute(time, tl) == tl
\* time.time() + ttl
Expiry(time, tl) == time + tl

\* Faulty variant of MoreAttempts: it gives up after the second attempt.
MoreAttemptsTwo(a) == a < RETRIES - 1
\* Faulty variant of MoreAttempts: one attempt too many.
MoreAttemptsOffByOne(a) == a <= RETRIES
\* for attempt in range(RETRIES): the loop body runs for this value of attempt
MoreAttempts(a) == a < RETRIES

\* Faulty variant of Remember: the first exception is kept.
RememberFirst(last, e) == IF last = None THEN e ELSE last
\* line 56: last_exception = e
Remember(last, e) == e

\* "if cached:" on what GreenGive.get returned: None and an empty dict are falsy.
Truthy(r) == r # None /\ DOMAIN r[1] # {}

\* ------------------------------------------------------- process_rates
\* str < str: by code point, a proper prefix first.
RECURSIVE LexLess(_, _)
LexLess(a, b) ==
    IF a = <<>> THEN b # <<>>
    ELSE IF b = <<>> THEN FALSE
    ELSE IF a[1] < b[1] THEN TRUE
    ELSE IF a[1] > b[1] THEN FALSE
    ELSE LexLess(Tail(a), Tail(b))

\* Faulty variant of Sorted: the largest date first.
RECURSIVE SortedDescending(_)
SortedDescending(S) ==
    IF S = {} THEN <<>>
    ELSE LET m == CHOOSE x \in S : \A y \in S \ {x} : LexLess(y, x)
         IN <<m>> \o SortedDescending(S \ {m})
\* sorted(rates_data["rates"].keys())
RECURSIVE Sorted(_)
Sorted(S) ==
    IF S = {} THEN <<>>
    ELSE LET m == CHOOSE x \in S : \A y \in S \ {x} : LexLess(x, y)
         IN <<m>> \o Sorted(S \ {m})

\* n / d rounded to the nearest integer, a tie to the even one (d # 0).
RoundDiv(n, d) ==
    LET nn == IF d < 0 THEN -n ELSE n
        dd == Abs(d)
        q == nn \div dd
        r == nn - q * dd
    IN IF 2 * r < dd THEN q
       ELSE IF 2 * r > dd THEN q + 1
       ELSE IF q % 2 = 0 THEN q ELSE q + 1

\* round(x, 4) of x = n / d, in units of 1/10000
Scale == 10 ^ ROUND_DIGITS
\* round(n / d, 4) in units of 1/Scale: the whole part of n / d apart, so that
\* no product leaves the 32-bit integers.
Round4(n, d) ==
    LET nn == IF d < 0 THEN -n ELSE n
        dd == Abs(d)
        q == nn \div dd
    IN q * Scale + RoundDiv((nn - q * dd) * Scale, dd)

\* Faulty variant of PctChange: the change as a fraction, not multiplied by 100.
PctChangeAsFraction(rate, prev_rate) ==
    IF prev_rate # None /\ prev_rate[1] # 0
    THEN Round4(rate - prev_rate[1], prev_rate[1])
    ELSE 0
\* ((rate - prev_rate) / prev_rate) * 100, rounded; 0.0 without a previous rate
\* or with a previous rate of zero.
PctChange(rate, prev_rate) ==
    IF prev_rate # None /\ prev_rate[1] # 0
    THEN Round4((rate - prev_rate[1]) * PERCENT, prev_rate[1])
    ELSE 0

\* The loop of lines 120-133 from position i on, with the loop's variables in acc.
RECURSIVE RatesLoop(_, _, _, _)
RatesLoop(rates, sorted_dates, i, acc) ==
    IF i > Len(sorted_dates) THEN acc
    ELSE LET date_str == sorted_dates[i]
             rate == rates[date_str]["USD"]
             point == [date |-> date_str, rate |-> rate,
                       pct_change |-> PctChange(rate, acc.prev_rate)]
         IN RatesLoop(rates, sorted_dates, i + 1,
                      [daily_results |-> Append(acc.daily_results, point),
                       total_rates |-> acc.total_rates + rate,
                       count |-> acc.count + 1,
                       prev_rate |-> Some(rate)])

NoData == [error |-> "No data available"]

\* Faulty variant of Unusable: an empty "rates" mapping counts as no data.
UnusableOrNoDates(rates_data) ==
    \/ DOMAIN rates_data = {}
    \/ "rates" \notin DOMAIN rates_data
    \/ DOMAIN rates_data["rates"] = {}
\* not rates_data or "rates" not in rates_data
Unusable(rates_data) == DOMAIN rates_data = {} \/ "rates" \notin DOMAIN rates_data

\* Faulty variant of WantsDaily: every mode but "none" gets the breakdown.
WantsDailyUnlessNone(breakdown) == breakdown # "none"
\* if breakdown == "day"
WantsDaily(breakdown) == breakdown = "day"

process_rates(rates_data, breakdown) ==
    IF Unusable(rates_data)
    THEN NoData
    ELSE
    LET rates == rates_data["rates"]
        sorted_dates == Sorted(DOMAIN rates)
        n == Len(sorted_dates)
        start_rate == IF n > 0 THEN Some(rates[sorted_dates[1]]["USD"]) ELSE None
        end_rate == IF n > 0 THEN Some(rates[sorted_dates[n]]["USD"]) ELSE None
        loop == RatesLoop(rates, sorted_dates, 1,
                          [daily_results |-> <<>>, total_rates |-> 0,
                           count |-> 0, prev_rate |-> None])
        mean_rate == IF loop.count > 0 THEN RoundDiv(loop.total_rates, loop.count) ELSE 0
        total_pct_change ==
            IF start_rate # None /\ start_rate[1] # 0
            THEN Round4((end_rate[1] - start_rate[1]) * PERCENT, start_rate[1])
            ELSE 0
    IN IF WantsDaily(breakdown)
       THEN [start_rate |-> start_rate, end_rate |-> end_rate,
             total_pct_change |-> total_pct_change, mean_rate |-> mean_rate,
             daily_breakdown |-> loop.daily_results]
       ELSE [start_rate |-> start_rate, end_rate |-> end_rate,
             total_pct_change |-> total_pct_change, mean_rate |-> mean_rate]

\* ----------------------------------------------------- fallback loader
\* Faulty variant of FallbackReturns: a missing file yields {"rates": {}}.
FallbackReturnsEmptyRates(file) ==
    IF file = "missing" THEN Some(RatesDict(<<>>))
    ELSE IF file = "ok" THEN Some(FallbackData)
    ELSE None
\* load_fallback_data: what it returns, or the exception it lets through.
FallbackReturns(file) ==
    IF file = "missing" THEN Some(EmptyDict)
    ELSE IF file = "ok" THEN Some(FallbackData)
    ELSE None
FallbackRaises(file) ==
    IF file = "malformed" THEN Some(Exc("JSONDecodeError", 0)) ELSE None

\* ------------------------------------------------------- the state machine
Init ==
    /\ cache = <<>>
    /\ cache_expiry = <<>>
    /\ now = 0
    /\ setLog = [k \in Keys |-> <<>>]
    /\ pc = [p \in Procs |-> "idle"]
    /\ op = [p \in Procs |-> "none"]
    /\ key = [p \in Procs |-> <<>>]
    /\ val = [p \in Procs |-> None]
    /\ ttl = [p \in Procs |-> 0]
    /\ req = [p \in Procs |-> None]
    /\ t = [p \in Procs |-> 0]
    /\ wake = [p \in Procs |-> 0]
    /\ seen = [p \in Procs |-> None]
    /\ ret = [p \in Procs |-> None]
    /\ attempt = [p \in Procs |-> 0]
    /\ last_exception = [p \in Procs |-> None]
    /\ caught = [p \in Procs |-> None]
    /\ calls = [p \in Procs |-> 0]
    /\ data = [p \in Procs |-> None]
    /\ fb = [p \in Procs |-> "unread"]
    /\ out = [p \in Procs |-> None]
    /\ exc = [p \in Procs |-> None]

\* Request p may begin: requests begin in the order of their numbers, and in a
\* sequential history only when no other request is under way.
CanStart(p, sequential) ==
    /\ pc[p] = "idle"
    /\ p > 1 => pc[p - 1] # "idle"
    /\ sequential => \A q \in Procs \ {p} : pc[q] \in {"idle", "done", "gone"}

\* The finished requests whose locals are gone by the time p begins: all but
\* the latest one.
Gone(p) == {q \in Procs : q < p - 1 /\ pc[q] = "done"}

\* Local f when p begins with value new for it.
Begun(f, p, new, dflt) ==
    [q \in Procs |-> IF q = p THEN new ELSE IF q \in Gone(p) THEN dflt ELSE f[q]]

\* Thread p begins at position entry with its arguments bound.
Begin(p, entry, o, k, v, tl, r) ==
    /\ pc' = Begun(pc, p, entry, "gone")
    /\ op' = Begun(op, p, o, "none")
    /\ key' = Begun(key, p, k, <<>>)
    /\ val' = Begun(val, p, v, None)
    /\ ttl' = Begun(ttl, p, tl, 0)
    /\ req' = Begun(req, p, r, None)
    /\ t' = Begun(t, p, 0, 0)
    /\ wake' = Begun(wake, p, 0, 0)
    /\ seen' = Begun(seen, p, None, None)
    /\ ret' = Begun(ret, p, None, None)
    /\ attempt' = Begun(attempt, p, 0, 0)
    /\ last_exception' = Begun(last_exception, p, None, None)
    /\ caught' = Begun(caught, p, None, None)
    /\ calls' = Begun(calls, p, 0, 0)
    /\ data' = Begun(data, p, None, None)
    /\ fb' = Begun(fb, p, "unread", "unread")
    /\ out' = Begun(out, p, None, None)
    /\ exc' = Begun(exc, p, None, None)
    /\ UNCHANGED <<cacheVars, clockVars>>

\* Where GreenGive.get and GreenGive.set return to.
AfterGet(p) == IF op[p] = "summary" THEN "fx_check" ELSE "done"
AfterSet(p) == IF op[p] = "summary" THEN "sum_proc" ELSE "done"

\* A caller invokes GreenGive.get(k).
CallGet(p, sequential) ==
    /\ CanStart(p, sequential)
    /\ \E k \in Keys : Begin(p, "get_in", "get", k, None, 0, None)

\* A caller invokes GreenGive.set(k, v, ttl).
CallSet(p, sequential) ==
    /\ CanStart(p, sequential)
    /\ \E k \in Keys, v \in Values, tl \in TTLs :
        Begin(p, "set_val", "set", k, Some(v), tl, None)

\* GET /summary: get_summary calls get_fx_data, which computes cache_key and
\* calls GreenGive.get(cache_key).
CallSummaryOf(p, sequential, modes) ==
    /\ CanStart(p, sequential)
    /\ \E r \in Ranges, breakdown \in modes :
        Begin(p, "get_in", "summary", CacheKey(r[1], r[2]), None, 0,
              <<r[1], r[2], breakdown>>)

\* GET /summary with a documented value of breakdown.
CallSummary(p, sequential) == CallSummaryOf(p, sequential, Breakdowns)

\* An exception e leaves the entry point of p.
Raise(p, e) ==
    /\ exc' = [exc EXCEPT ![p] = Some(e)]
    /\ pc' = [pc EXCEPT ![p] = "done"]

\* GreenGive.get, line 33: if key in cls._cache
GetIn(p) ==
    /\ pc[p] = "get_in"
    /\ IF key[p] \in DOMAIN cache
       THEN /\ pc' = [pc EXCEPT ![p] = "get_time"]
            /\ ret' = ret
       ELSE /\ pc' = [pc EXCEPT ![p] = AfterGet(p)]
            /\ ret' = [ret EXCEPT ![p] = None]
    /\ UNCHANGED <<cacheVars, clockVars, argVars, t, seen, retryVars, resVars>>

\* line 34: time.time()
GetTime(p) ==
    /\ pc[p] = "get_time"
    /\ \E d \in Elapsed :
        /\ now' = now + d
        /\ t' = [t EXCEPT ![p] = now + d]
    /\ pc' = [pc EXCEPT ![p] = "get_exp"]
    /\ UNCHANGED <<cacheVars, argVars, seen, ret, retryVars, resVars>>

\* line 34: ... < cls._cache_expiry[key]
GetExp(p) ==
    /\ pc[p] = "get_exp"
    /\ IF key[p] \in DOMAIN cache_expiry
       THEN /\ seen' = [seen EXCEPT ![p] = Some(cache_expiry[key[p]])]
            /\ pc' = [pc EXCEPT ![p] =
                        IF Fresh(t[p], cache_expiry[key[p]]) THEN "get_ret" ELSE "get_del"]
            /\ exc' = exc
       ELSE /\ Raise(p, Exc("KeyError", 0))
            /\ seen' = seen
    /\ UNCHANGED <<cacheVars, clockVars, argVars, t, ret, retryVars, data, fb, out>>

\* line 36: return cls._cache[key]
GetRet(p) ==
    /\ pc[p] = "get_ret"
    /\ IF key[p] \in DOMAIN cache
       THEN /\ ret' = [ret EXCEPT ![p] = Some(cache[key[p]])]
            /\ pc' = [pc EXCEPT ![p] = AfterGet(p)]
            /\ exc' = exc
       ELSE /\ Raise(p, Exc("KeyError", 0))
            /\ ret' = ret
    /\ UNCHANGED <<cacheVars, clockVars, argVars, t, seen, retryVars, data, fb, out>>

\* line 38: del cls._cache[key]
GetDel(p) ==
    /\ pc[p] = "get_del"
    /\ IF key[p] \in DOMAIN cache
       THEN /\ cache' = DictDel(cache, key[p])
            /\ pc' = [pc EXCEPT ![p] = "get_del_expiry"]
            /\ exc' = exc
       ELSE /\ Raise(p, Exc("KeyError", 0))
            /\ cache' = cache
    /\ UNCHANGED <<cache_expiry, setLog, clockVars, argVars, getVars, retryVars, data, fb, out>>

\* Faulty variant of GetDelExpiry: the expiry of the removed value stays.
GetDelExpirySkipped(p) ==
    /\ pc[p] = "get_del_expiry"
    /\ ret' = [ret EXCEPT ![p] = None]
    /\ pc' = [pc EXCEPT ![p] = AfterGet(p)]
    /\ UNCHANGED <<cacheVars, clockVars, argVars, t, seen, retryVars, resVars>>
\* line 39: del cls._cache_expiry[key]; line 40: return None
GetDelExpiry(p) ==
    /\ pc[p] = "get_del_expiry"
    /\ IF key[p] \in DOMAIN cache_expiry
       THEN /\ cache_expiry' = DictDel(cache_expiry, key[p])
            /\ ret' = [ret EXCEPT ![p] = None]
            /\ pc' = [pc EXCEPT ![p] = AfterGet(p)]
            /\ exc' = exc
       ELSE /\ Raise(p, Exc("KeyError", 0))
            /\ cache_expiry' = cache_expiry
            /\ ret' = ret
    /\ UNCHANGED <<cache, setLog, clockVars, argVars, t, seen, retryVars, data, fb, out>>

\* GreenGive.set, line 44: cls._cache[key] = value
SetVal(p) ==
    /\ pc[p] = "set_val"
    /\ cache' = DictSet(cache, key[p], val[p][1])
    /\ pc' = [pc EXCEPT ![p] = "set_time"]
    /\ UNCHANGED <<cache_expiry, setLog, clockVars, argVars, getVars, retryVars, resVars>>

\* line 45: time.time()
SetTime(p) ==
    /\ pc[p] = "set_time"
    /\ \E d \in Elapsed :
        /\ now' = now + d
        /\ t' = [t EXCEPT ![p] = now + d]
    /\ pc' = [pc EXCEPT ![p] = "set_exp"]
    /\ UNCHANGED <<cacheVars, argVars, seen, ret, retryVars, resVars>>

\* line 45: cls._cache_expiry[key] = ... + ttl
SetExp(p) ==
    /\ pc[p] = "set_exp"
    /\ cache_expiry' = DictSet(cache_expiry, key[p], Expiry(t[p], ttl[p]))
    /\ setLog' = [setLog EXCEPT ![key[p]] =
                    Append(@, [v |-> val[p][1], t |-> t[p], ttl |-> ttl[p]])]
    /\ pc' = [pc EXCEPT ![p] = AfterSet(p)]
    /\ UNCHANGED <<cache, clockVars, argVars, getVars, retryVars, resVars>>

\* get_fx_data, lines 90-91: if cached: return cached; else enter the wrapper
\* (line 50: last_exception = None, line 51: the first attempt).
FxCheck(p) ==
    /\ pc[p] = "fx_check"
    /\ IF Truthy(ret[p])
       THEN /\ data' = [data EXCEPT ![p] = ret[p]]
            /\ pc' = [pc EXCEPT ![p] = "sum_proc"]
       ELSE /\ data' = data
            /\ pc' = [pc EXCEPT ![p] = "retry_call"]
    /\ UNCHANGED <<cacheVars, clockVars, argVars, getVars, retryVars, fb, out, exc>>

\* wrapper, lines 51-57: one attempt.  It returns the provider's answer, which
\* get_fx_data hands to GreenGive.set (line 95), or it raises, and the wrapper
\* records the exception and starts time.sleep(1).
RetryCall(p) ==
    /\ pc[p] = "retry_call"
    /\ MoreAttempts(attempt[p])
    /\ calls' = [calls EXCEPT ![p] = @ + 1]
    /\ \/ \E d \in Responses :
            /\ data' = [data EXCEPT ![p] = Some(d)]
            /\ val' = [val EXCEPT ![p] = Some(d)]
            /\ ttl' = [ttl EXCEPT ![p] = CACHE_TTL]
            /\ pc' = [pc EXCEPT ![p] = "set_val"]
            /\ UNCHANGED <<last_exception, wake>>
       \/ \E e \in FetchErrors :
            /\ last_exception' = [last_exception EXCEPT ![p] =
                                    Remember(@, Some(Exc(e, attempt[p] + 1)))]
            /\ wake' = [wake EXCEPT ![p] = now + SLEEP_SECONDS]
            /\ pc' = [pc EXCEPT ![p] = "retry_sleep"]
            /\ UNCHANGED <<data, val, ttl>>
    /\ UNCHANGED <<cacheVars, clockVars, op, key, req, getVars, attempt, caught, fb, out, exc>>

\* line 57: time.sleep(1) returns, a second after it began (or later, when the
\* clock has moved on meanwhile); the loop goes on to the next attempt.
RetrySleep(p) ==
    /\ pc[p] = "retry_sleep"
    /\ now' = Max(now, wake[p])
    /\ attempt' = [attempt EXCEPT ![p] = @ + 1]
    /\ pc' = [pc EXCEPT ![p] = "retry_call"]
    /\ UNCHANGED <<cacheVars, argVars, getVars, last_exception, caught, calls, wake,
                   resVars>>

\* lines 58-59: the loop is over: raise last_exception, which get_fx_data
\* catches (line 97).
RetryRaise(p) ==
    /\ pc[p] = "retry_call"
    /\ ~MoreAttempts(attempt[p])
    /\ caught' = [caught EXCEPT ![p] = last_exception[p]]
    /\ pc' = [pc EXCEPT ![p] = "fb_load"]
    /\ UNCHANGED <<cacheVars, clockVars, argVars, getVars, attempt, last_exception, calls,
                   wake, resVars>>

\* Faulty variant of FbLoad: the fallback data is stored in the cache as well.
FbLoadCaching(p) ==
    /\ pc[p] = "fb_load"
    /\ \E file \in FileStates :
        /\ fb' = [fb EXCEPT ![p] = file]
        /\ IF FallbackRaises(file) # None
           THEN /\ Raise(p, FallbackRaises(file)[1])
                /\ data' = data
                /\ UNCHANGED <<cache, cache_expiry>>
           ELSE /\ data' = [data EXCEPT ![p] = FallbackReturns(file)]
                /\ cache' = DictSet(cache, key[p], FallbackReturns(file)[1])
                /\ cache_expiry' = DictSet(cache_expiry, key[p], Expiry(now, CACHE_TTL))
                /\ pc' = [pc EXCEPT ![p] = "sum_proc"]
                /\ exc' = exc
    /\ UNCHANGED <<setLog, clockVars, argVars, getVars, retryVars, out>>
\* line 99: return load_fallback_data()
FbLoad(p) ==
    /\ pc[p] = "fb_load"
    /\ \E file \in FileStates :
        /\ fb' = [fb EXCEPT ![p] = file]
        /\ IF FallbackRaises(file) # None
           THEN /\ Raise(p, FallbackRaises(file)[1])
                /\ data' = data
           ELSE /\ data' = [data EXCEPT ![p] = FallbackReturns(file)]
                /\ pc' = [pc EXCEPT ![p] = "sum_proc"]
                /\ exc' = exc
    /\ UNCHANGED <<cacheVars, clockVars, argVars, getVars, retryVars, out>>

\* get_summary, lines 167-168: result = process_rates(raw_data, breakdown)
SumProc(p) ==
    /\ pc[p] = "sum_proc"
    /\ out' = [out EXCEPT ![p] = Some(process_rates(data[p][1], req[p][3]))]
    /\ pc' = [pc EXCEPT ![p] = "done"]
    /\ UNCHANGED <<cacheVars, clockVars, argVars, getVars, retryVars, data, fb, exc>>

\* A step of get_fx_data (or of a direct GreenGive call) in thread p.
FxStep(p) ==
    \/ GetIn(p) \/ GetTime(p) \/ GetExp(p) \/ GetRet(p) \/ GetDel(p) \/ GetDelExpiry(p)
    \/ SetVal(p) \/ SetTime(p) \/ SetExp(p)
    \/ FxCheck(p) \/ RetryCall(p) \/ RetrySleep(p) \/ RetryRaise(p) \/ FbLoad(p)

Step(p) == FxStep(p) \/ SumProc(p)

\* Sequential histories: a request begins when the one before it is over.
Next ==
    \/ \E p \in Procs : CallGet(p, TRUE) \/ CallSet(p, TRUE) \/ CallSummary(p, TRUE)
    \/ \E p \in Procs : Step(p)

Spec == Init /\ [][Next]_vars

\* Concurrent requests: every interleaving of the threads' steps.
NextConc ==
    \/ \E p \in ConcProcs : CallGet(p, FALSE) \/ CallSet(p, FALSE) \/ CallSummary(p, FALSE)
    \/ \E p \in ConcProcs : Step(p)

SpecConc == Init /\ [][NextConc]_vars

\* The HTTP service: GET /summary is the only entry point, GreenGive is used
\* by get_fx_data alone, and the requests' threads interleave.
NextApi ==
    \/ \E p \in ApiProcs : CallSummaryOf(p, FALSE, AnyBreakdowns)
    \/ \E p \in ApiProcs : Step(p)

SpecApi == Init /\ [][NextApi]_vars

\* The HTTP service with its scheduling: each request runs in a thread of its
\* own, and a thread inside get_fx_data that can take a step takes one (the
\* scheduler is fair to runnable threads; a fetch attempt and a time.sleep(1)
\* end). breakdown plays no part in get_fx_data: the requests carry "none".
NextFair ==
    \/ \E p \in ApiProcs : CallSummaryOf(p, FALSE, {"none"})
    \/ \E p \in ApiProcs : Step(p)

SpecFair == Init /\ [][NextFair]_vars /\ \A p \in ApiProcs : WF_vars(FxStep(p))

\* process_rates on its own: get_summary holds some raw_data (any of RawInputs)
\* and some breakdown, and calls process_rates.
InitRates ==
    /\ cache = <<>>
    /\ cache_expiry = <<>>
    /\ now = 0
    /\ setLog = [k \in Keys |-> <<>>]
    /\ pc = [p \in Procs |-> IF p = 1 THEN "sum_proc" ELSE "idle"]
    /\ op = [p \in Procs |-> IF p = 1 THEN "summary" ELSE "none"]
    /\ key = [p \in Procs |-> IF p = 1 THEN CacheKey(Day1, Day1) ELSE <<>>]
    /\ val = [p \in Procs |-> None]
    /\ ttl = [p \in Procs |-> 0]
    /\ \E breakdown \in AnyBreakdowns :
          req = [p \in Procs |-> IF p = 1 THEN <<Day1, Day1, breakdown>> ELSE None]
    /\ t = [p \in Procs |-> 0]
    /\ wake = [p \in Procs |-> 0]
    /\ seen = [p \in Procs |-> None]
    /\ ret = [p \in Procs |-> None]
    /\ attempt = [p \in Procs |-> 0]
    /\ last_exception = [p \in Procs |-> None]
    /\ caught = [p \in Procs |-> None]
    /\ calls = [p \in Procs |-> 0]
    /\ \E d \in RawInputs :
          data = [p \in Procs |-> IF p = 1 THEN Some(d) ELSE None]
    /\ fb = [p \in Procs |-> "unread"]
    /\ out = [p \in Procs |-> None]
    /\ exc = [p \in Procs |-> None]

NextRates == SumProc(1)

SpecRates == InitRates /\ [][NextRates]_vars

\* ------------------------------------------------------------ the claims
\* No request has begun after p: the cache is as p left it.
Latest(p) == \A q \in Procs : q > p => pc[q] = "idle"
\* The set call that wrote key k last.
LastSet(k) == setLog[k][Len(setLog[k])]
\* p's get_fx_data has returned a value to get_summary.
FxReturned(p) == op[p] = "summary" /\ pc[p] \in {"sum_proc", "done"} /\ exc[p] = None
\* p's fetch succeeded and get_fx_data returned what it fetched.
FetchedOk(p) == FxReturned(p) /\ calls[p] > 0 /\ fb[p] = "unread"

\* C1: in a sequential history, a get of k after set(k, v, ttl) at time t (the
\* latest set of k) returns v only at a time strictly before t + ttl, and
\* returns None only when the clock has reached t + ttl.
C1_GetWithinTtl ==
    \A p \in Procs :
        (op[p] = "get" /\ pc[p] = "done" /\ Latest(p) /\ setLog[key[p]] # <<>>) =>
            LET s == LastSet(key[p])
            IN /\ exc[p] = None
               /\ ret[p] # None => (ret[p] = Some(s.v) /\ t[p] < s.t + s.ttl)
               /\ ret[p] = None => now >= s.t + s.ttl

\* A get exactly at the expiry instant t + ttl has returned None.
C1_Witness ==
    \E p \in Procs :
        /\ op[p] = "get" /\ pc[p] = "done" /\ Latest(p) /\ setLog[key[p]] # <<>>
        /\ seen[p] # None
        /\ t[p] = LastSet(key[p]).t + LastSet(key[p]).ttl
        /\ ret[p] = None

\* C2: under concurrent get and set, no get fails with a KeyError (the value
\* without its expiry, or an entry removed under it), and a value a get returns
\* was judged against the expiry that the same set call wrote.
C2_PairIsAtomic ==
    \A p \in ConcProcs :
        /\ exc[p] # Some(Exc("KeyError", 0))
        /\ (ret[p] # None /\ seen[p] # None) =>
              \E i \in 1..Len(setLog[key[p]]) :
                  /\ setLog[key[p]][i].v = ret[p][1]
                  /\ setLog[key[p]][i].t + setLog[key[p]][i].ttl = seen[p][1]

\* C3: the wrapper invokes the wrapped function at most 3 times; exactly once
\* when the first invocation succeeds; 3 times when every invocation fails.
C3_AtMostThreeCalls ==
    \A p \in Procs :
        /\ calls[p] <= 3
        /\ (op[p] = "summary" /\ pc[p] = "set_val" /\ last_exception[p] = None) =>
              calls[p] = 1
        /\ caught[p] # None => calls[p] = 3

\* The wrapper has raised after 3 failed invocations.
C3_Witness == \E p \in Procs : caught[p] # None /\ calls[p] = 3

\* C4: when all attempts fail, the wrapper raises the exception of the third
\* attempt; when an attempt succeeds, it returns that attempt's result and
\* raises nothing.
C4_RaisesLastFailure ==
    \A p \in Procs :
        /\ caught[p] # None =>
              /\ caught[p][1].type \in FetchErrors
              /\ caught[p][1].attempt = 3
              /\ pc[p] \in {"fb_load", "sum_proc", "done"}
        /\ (op[p] = "summary" /\ pc[p] \in {"set_val", "set_time", "set_exp"}) =>
              /\ caught[p] = None
              /\ data[p] # None /\ data[p][1] \in Responses /\ val[p] = data[p]

\* The wrapper has raised the third attempt's exception after two earlier ones.
C4_Witness ==
    \E p \in Procs :
        /\ pc[p] = "fb_load"
        /\ caught[p] # None /\ caught[p][1].attempt = 3 /\ calls[p] = 3

\* C5: of two /summary calls in sequence for the same request, the first of
\* which fetched its data in one network call and the second of which ends
\* inside the TTL window of the first, the second makes no network call and
\* produces the first's output.
C5_SecondCallIsCacheHit ==
    \A p \in Procs :
        (/\ p > 1
         /\ op[p] = "summary" /\ pc[p] = "done"
         /\ FetchedOk(p - 1) /\ pc[p - 1] = "done" /\ calls[p - 1] = 1
         /\ req[p - 1] = req[p]
         /\ now < t[p - 1] + CACHE_TTL) =>
            /\ calls[p] = 0
            /\ exc[p] = None
            /\ out[p] = out[p - 1]

\* C6: when GreenGive.get found a present, unexpired entry for the key,
\* get_fx_data returns that entry's value with no fetch attempt and no read
\* of the fallback file, and the cache is as it was.
C6_HitReturnsAtOnce ==
    \A p \in Procs :
        (op[p] = "summary" /\ ret[p] # None /\ pc[p] # "fx_check") =>
            /\ calls[p] = 0
            /\ fb[p] = "unread"
            /\ pc[p] \in {"sum_proc", "done"}
            /\ data[p] = ret[p]
            /\ Latest(p) =>
                  /\ key[p] \in DOMAIN cache /\ cache[key[p]] = ret[p][1]
                  /\ key[p] \in DOMAIN cache_expiry /\ cache_expiry[key[p]] = seen[p][1]

\* C7: load_fallback_data returns {} for a missing and for a malformed file,
\* and no exception leaves get_fx_data.
C7_NeverRaises ==
    \A p \in Procs :
        op[p] = "summary" =>
            /\ exc[p] = None
            /\ (fb[p] \in {"missing", "malformed"} /\ pc[p] # "fb_load") =>
                  data[p] = Some(EmptyDict)

\* C8: the fallback file is read only after 3 failed attempts, and it is read
\* whenever they all failed; get_fx_data then returns what the loader returned;
\* with the file missing that is {}, and process_rates reports "No data
\* available".
C8_FallbackAfterRetries ==
    \A p \in Procs :
        /\ fb[p] # "unread" => (calls[p] = 3 /\ caught[p] # None)
        /\ (caught[p] # None /\ pc[p] \in {"sum_proc", "done"}) => fb[p] # "unread"
        /\ (FxReturned(p) /\ fb[p] = "ok") => data[p] = Some(FallbackData)
        /\ (FxReturned(p) /\ fb[p] = "missing") => data[p] = Some(EmptyDict)
        /\ (pc[p] = "done" /\ fb[p] = "missing") =>
              out[p] = Some([error |-> "No data available"])

\* Every attempt failed, the file was missing, and the summary is the error.
C8_Witness ==
    \E p \in Procs :
        /\ pc[p] = "done" /\ fb[p] = "missing" /\ calls[p] = 3
        /\ out[p] = Some([error |-> "No data available"])

\* C9: after a miss and a successful fetch, get_fx_data returns the fetched
\* result with the cache holding it under start_date + "_" + end_date, expiring
\* 300 after the clock reading of the set; a get of that key then returns the
\* result before that instant and None from it on.
C9_StoresFetchedResult ==
    \A p \in Procs :
        FetchedOk(p) =>
            LET k == req[p][1] \o <<95>> \o req[p][2]
            IN /\ data[p] = val[p]
               /\ Latest(p) =>
                     /\ k \in DOMAIN cache /\ cache[k] = data[p][1]
                     /\ k \in DOMAIN cache_expiry /\ cache_expiry[k] = t[p] + 300
               /\ (/\ p < NumProcs /\ Latest(p + 1)
                   /\ op[p + 1] = "get" /\ key[p + 1] = k /\ pc[p + 1] = "done") =>
                     /\ exc[p + 1] = None
                     /\ ret[p + 1] # None =>
                           (ret[p + 1] = data[p] /\ t[p + 1] < t[p] + 300)
                     /\ ret[p + 1] = None => now >= t[p] + 300

\* A fetched result was cached and a later get of its key returned it.
C9_Witness ==
    \E p \in Procs :
        /\ FetchedOk(p) /\ p < NumProcs
        /\ op[p + 1] = "get" /\ pc[p + 1] = "done"
        /\ key[p + 1] = key[p]
        /\ ret[p + 1] = data[p]

\* The positions inside GreenGive.get.
GetPcs == {"get_in", "get_time", "get_exp", "get_ret", "get_del", "get_del_expiry"}
\* Key k has the same entry (or none) before and after the step.
SameEntry(k) ==
    /\ (k \in DOMAIN cache) = (k \in DOMAIN cache')
    /\ (k \in DOMAIN cache_expiry) = (k \in DOMAIN cache_expiry')
    /\ k \in DOMAIN cache => cache'[k] = cache[k]
    /\ k \in DOMAIN cache_expiry => cache_expiry'[k] = cache_expiry[k]
\* A get that found the stored expiry at or before the clock has returned None
\* with the value and the expiry of its key removed.
C10_ExpiredGone ==
    \A p \in Procs :
        (/\ op[p] = "get" /\ pc[p] = "done" /\ Latest(p)
         /\ seen[p] # None /\ t[p] >= seen[p][1]) =>
            /\ ret[p] = None
            /\ exc[p] = None
            /\ key[p] \notin DOMAIN cache
            /\ key[p] \notin DOMAIN cache_expiry
\* A step of a get leaves every other key's entry as it was, and a value or an
\* expiry leaves the cache only in a step of a get of that key that found it
\* expired.
C10_OnlyExpiredRemoved ==
    /\ \A p \in Procs : \A k \in Keys :
          (pc[p] \in GetPcs /\ pc'[p] # pc[p] /\ k # key[p]) => SameEntry(k)
    /\ \A k \in Keys :
          (\/ k \in DOMAIN cache /\ k \notin DOMAIN cache'
           \/ k \in DOMAIN cache_expiry /\ k \notin DOMAIN cache_expiry') =>
              \E p \in Procs :
                  /\ pc[p] \in {"get_del", "get_del_expiry"} /\ pc'[p] # pc[p]
                  /\ key[p] = k
                  /\ seen[p] # None /\ t[p] >= seen[p][1]
\* C10: a get of a key whose stored expiry is at or before the current time
\* returns None and removes the key's value and expiry, leaving every other
\* key's entry unchanged; nothing else ever removes an entry.
C10_LazyExpiry == [](C10_ExpiredGone) /\ [][C10_OnlyExpiredRemoved]_vars

\* An expired get has removed its entry while another key's entry stayed.
C10_Witness ==
    \E p \in Procs :
        /\ op[p] = "get" /\ pc[p] = "done" /\ Latest(p)
        /\ seen[p] # None /\ t[p] >= seen[p][1]
        /\ key[p] \notin DOMAIN cache
        /\ \E k \in Keys : k # key[p] /\ k \in DOMAIN cache /\ k \in DOMAIN cache_expiry

\* p's call of GreenGive.set has returned.
SetReturned(p) ==
    /\ val[p] # None /\ exc[p] = None
    /\ \/ op[p] = "set" /\ pc[p] = "done"
       \/ op[p] = "summary" /\ pc[p] \in {"sum_proc", "done"}

\* C11: in a sequential history, once set(k, v, ttl) has returned (the clock
\* read at t) the cache holds v under k with expiry t + ttl, whatever k held
\* before; get_fx_data, which omits ttl, gets t + 300; and a get of k that
\* follows and reads the clock before t + ttl returns v.
C11_SetOverwrites ==
    \A p \in Procs :
        SetReturned(p) =>
            /\ Latest(p) =>
                  /\ key[p] \in DOMAIN cache /\ cache[key[p]] = val[p][1]
                  /\ key[p] \in DOMAIN cache_expiry
                  /\ cache_expiry[key[p]] = t[p] + ttl[p]
                  /\ op[p] = "summary" => cache_expiry[key[p]] = t[p] + 300
            /\ (/\ p < NumProcs /\ Latest(p + 1)
                /\ op[p + 1] = "get" /\ key[p + 1] = key[p] /\ pc[p + 1] = "done"
                /\ t[p + 1] < t[p] + ttl[p]) =>
                  /\ ret[p + 1] = val[p]
                  /\ exc[p + 1] = None

\* A set has replaced an unexpired entry that had another value and a later
\* expiry, and the get that followed returned the new value.
C11_Witness ==
    \E p \in Procs :
        /\ SetReturned(p) /\ p < NumProcs /\ Len(setLog[key[p]]) >= 2
        /\ LET old == setLog[key[p]][Len(setLog[key[p]]) - 1]
           IN /\ old.v # val[p][1]
              /\ old.t + old.ttl > t[p] + ttl[p]
        /\ op[p + 1] = "get" /\ key[p + 1] = key[p] /\ pc[p + 1] = "done"
        /\ seen[p + 1] = Some(t[p] + ttl[p])
        /\ ret[p + 1] = val[p]

\* C12: a /summary request whose breakdown is neither "day" nor "none" is
\* turned away with a validation error before get_fx_data or process_rates
\* runs for it.
C12_InvalidRejected ==
    \A p \in ApiProcs :
        (op[p] = "summary" /\ req[p][3] \notin {"day", "none"}) =>
            /\ pc[p] = "done"
            /\ exc[p] = Some(Exc("ValidationError", 0))
            /\ calls[p] = 0 /\ data[p] = None /\ out[p] = None

\* p's call of process_rates has returned: its arguments and its result.
Processed(p) == op[p] = "summary" /\ pc[p] = "done" /\ data[p] # None /\ out[p] # None
RawOf(p) == data[p][1]
ModeOf(p) == req[p][3]
ResultOf(p) == out[p][1]
\* The series handed to process_rates: date |-> rate.
SeriesOf(p) == [d \in DOMAIN RawOf(p)["rates"] |-> RawOf(p)["rates"][d]["USD"]]
HasSeries(p) == DOMAIN RawOf(p) # {} /\ "rates" \in DOMAIN RawOf(p)

PoolIndex(d) == CHOOSE i \in 1..Len(DatePool) : DatePool[i] = d
\* r is n / d (d > 0) rounded to 4 decimal places, a tie to the even digit; r in
\* units of 1/10000.
IsRounded4(r, n, d) ==
    /\ 2 * Abs(r * d - n * 10000) <= d
    /\ 2 * Abs(r * d - n * 10000) = d => r % 2 = 0
\* The percent change from rate a to rate b, a # 0, is pct. The rates are whole
\* multiples of 0.01, so the quotient is taken over hundredths.
IsPctChange(pct, a, b) == IsRounded4(pct, ((b \div 100) - (a \div 100)) * 100, a \div 100)

\* C14: a summary of process_rates has the key daily_breakdown exactly when the
\* mode is "day" (in any other mode the key is absent), and then it holds one
\* point per date of the series, in ascending order of the dates.
C14_DailyOnlyForDay ==
    \A p \in Procs :
        (Processed(p) /\ HasSeries(p)) =>
            /\ ("daily_breakdown" \in DOMAIN ResultOf(p)) <=> (ModeOf(p) = "day")
            /\ ModeOf(p) = "day" =>
                  LET db == ResultOf(p).daily_breakdown
                  IN /\ Len(db) = Cardinality(DOMAIN SeriesOf(p))
                     /\ {db[i].date : i \in 1..Len(db)} = DOMAIN SeriesOf(p)
                     /\ \A i \in 1..Len(db), j \in 1..Len(db) :
                           i < j => PoolIndex(db[i].date) < PoolIndex(db[j].date)

\* A series over every date was processed in mode "day": the points are in
\* order, "10" before "2".
C14_Witness ==
    \E p \in Procs :
        /\ Processed(p) /\ HasSeries(p) /\ ModeOf(p) = "day"
        /\ DOMAIN SeriesOf(p) = InputDates
        /\ Len(ResultOf(p).daily_breakdown) = NumDates
        /\ ResultOf(p).daily_breakdown[2].date = <<49, 48>>
        /\ ResultOf(p).daily_breakdown[3].date = <<50>>

\* C15: the points of process_rates are in strictly ascending order of date,
\* each with the rate of its date; the percent change of a point is 0.0 for
\* the first date and after a rate of exactly zero, and otherwise (rate -
\* previous) / previous * 100 rounded to 4 places, previous being the rate
\* of the point just before it.
C15_ChangeAgainstPrevious ==
    \A p \in Procs :
        (Processed(p) /\ HasSeries(p) /\ ModeOf(p) = "day") =>
            LET db == ResultOf(p).daily_breakdown
            IN \A i \in 1..Len(db) :
                  /\ i > 1 => PoolIndex(db[i - 1].date) < PoolIndex(db[i].date)
                  /\ db[i].rate = SeriesOf(p)[db[i].date]
                  /\ IF i = 1 \/ db[i - 1].rate = 0
                     THEN db[i].pct_change = 0
                     ELSE IsPctChange(db[i].pct_change, db[i - 1].rate, db[i].rate)

\* The series "1": 0, "10": 1.1, "2": 1.0 was processed: 0.0 for the first
\* date, 0.0 after the zero rate, -9.0909 from 1.1 to 1.0.
C15_Witness ==
    \E p \in Procs :
        /\ Processed(p) /\ HasSeries(p) /\ ModeOf(p) = "day"
        /\ SeriesOf(p) = [d \in {<<49>>, <<49, 48>>, <<50>>} |->
                            IF d = <<49>> THEN 0 ELSE IF d = <<50>> THEN 10000 ELSE 11000]
        /\ ResultOf(p).daily_breakdown[1].pct_change = 0
        /\ ResultOf(p).daily_breakdown[2].pct_change = 0
        /\ ResultOf(p).daily_breakdown[3].pct_change = -90909

\* The smallest and the largest date of a non-empty series.
FirstDate(series) ==
    CHOOSE d \in DOMAIN series : \A e \in DOMAIN series : PoolIndex(d) <= PoolIndex(e)
LastDate(series) ==
    CHOOSE d \in DOMAIN series : \A e \in DOMAIN series : PoolIndex(e) <= PoolIndex(d)

\* C16: start_rate and end_rate are the rates of the smallest and the largest
\* date; total_pct_change is 0.0 when the start rate is zero and otherwise
\* (end_rate - start_rate) / start_rate * 100 rounded to 4 places; with a
\* "rates" mapping without dates start_rate and end_rate are null and
\* total_pct_change and mean_rate are 0; process_rates never fails on a
\* division.
C16_TotalChange ==
    \A p \in Procs :
        (op[p] = "summary" /\ pc[p] = "done" /\ data[p] # None /\ HasSeries(p)) =>
            /\ exc[p] = None /\ out[p] # None
            /\ IF DOMAIN SeriesOf(p) = {}
               THEN /\ ResultOf(p).start_rate = None
                    /\ ResultOf(p).end_rate = None
                    /\ ResultOf(p).total_pct_change = 0
                    /\ ResultOf(p).mean_rate = 0
               ELSE LET first == SeriesOf(p)[FirstDate(SeriesOf(p))]
                        last == SeriesOf(p)[LastDate(SeriesOf(p))]
                    IN /\ ResultOf(p).start_rate = Some(first)
                       /\ ResultOf(p).end_rate = Some(last)
                       /\ IF first = 0
                          THEN ResultOf(p).total_pct_change = 0
                          ELSE IsPctChange(ResultOf(p).total_pct_change, first, last)

\* The series "1": 1.1, "10": 0, "2": 1.21 was processed: the total change is
\* 10.0, from the first to the last date.
C16_Witness ==
    \E p \in Procs :
        /\ Processed(p) /\ HasSeries(p)
        /\ SeriesOf(p) = [d \in {<<49>>, <<49, 48>>, <<50>>} |->
                            IF d = <<49>> THEN 11000 ELSE IF d = <<50>> THEN 12100 ELSE 0]
        /\ ResultOf(p).start_rate = Some(11000)
        /\ ResultOf(p).end_rate = Some(12100)
        /\ ResultOf(p).total_pct_change = 100000

\* Thread p is inside get_fx_data.
InFx(p) == op[p] = "summary" /\ pc[p] \notin {"idle", "sum_proc", "done", "gone"}
\* The fetch sequence of p is over before get_fx_data goes on: the cache is
\* written only after a successful attempt (at most the third), the fallback
\* is read only after 3 failed attempts, and until then nothing is returned.
C17_RunsToCompletion ==
    \A p \in ApiProcs :
        /\ (op[p] = "summary" /\ pc[p] \in {"set_val", "set_time", "set_exp"}) =>
              /\ calls[p] \in 1..3 /\ attempt[p] = calls[p] - 1
              /\ data[p] # None /\ val[p] = data[p] /\ fb[p] = "unread"
        /\ (pc[p] = "fb_load" \/ fb[p] # "unread") =>
              /\ calls[p] = 3 /\ attempt[p] = 3 /\ caught[p] # None
        /\ pc[p] \in {"retry_call", "retry_sleep", "fb_load"} => data[p] = None
\* A thread inside get_fx_data can take its next step whatever the other
\* threads are doing.
C17_NeverBlocked == \A p \in ApiProcs : InFx(p) => ENABLED <<FxStep(p)>>_vars
\* C17: with fetch attempts and delays that end and a fair scheduler, every
\* call of get_fx_data returns or raises; its fetch sequence runs to the first
\* success or to 3 failures before the cache is written or the fallback is
\* read; and no request waits for another request's fetch.
C17_Terminates ==
    /\ \A p \in ApiProcs : InFx(p) ~> ~InFx(p)
    /\ [](C17_RunsToCompletion)
    /\ [](C17_NeverBlocked)

\* One request has come back from 3 failed attempts and the fallback while the
\* other is asleep between two attempts of its own.
C17_Witness ==
    \E p \in ApiProcs, q \in ApiProcs :
        /\ p # q
        /\ FxReturned(p) /\ calls[p] = 3 /\ fb[p] = "ok"
        /\ pc[q] = "retry_sleep" /\ calls[q] = 2

\* The step puts a value, or an expiry, under key k.
ValueWritten(k) == k \in DOMAIN cache' /\ (k \in DOMAIN cache => cache'[k] # cache[k])
ExpiryWritten(k) ==
    k \in DOMAIN cache_expiry' /\ (k \in DOMAIN cache_expiry => cache_expiry'[k] # cache_expiry[k])
\* Thread p has fetched successfully for the range with key k and is at pos.
Storing(p, k, pos) ==
    /\ op[p] = "summary" /\ pc[p] = pos /\ pc'[p] # pos
    /\ k = req[p][1] \o <<95>> \o req[p][2]
    /\ calls[p] >= 1 /\ fb[p] = "unread" /\ caught[p] = None
    /\ data[p] # None /\ data[p][1] \in Responses
\* Every write to the cache is by a request that has just fetched for the
\* range of that key, and it writes what the fetch returned; the steps of the
\* failure path (failed attempts, sleeps, the fallback read) leave the cache as
\* it is.
C18_OnlyFetchedWritten ==
    /\ \A k \in Keys :
          /\ ValueWritten(k) =>
                \E p \in ApiProcs : Storing(p, k, "set_val") /\ cache'[k] = data[p][1]
          /\ ExpiryWritten(k) => \E p \in ApiProcs : Storing(p, k, "set_exp")
    /\ \A p \in ApiProcs :
          (/\ pc[p] \in {"retry_call", "retry_sleep", "fb_load"} /\ pc'[p] # pc[p]
           /\ pc'[p] # "set_val") =>
              /\ cache' = cache
              /\ cache_expiry' = cache_expiry
\* A request that came back with fallback data never wrote to the cache, and a
\* request that found no usable entry went to the network.
C18_MissGoesToNetwork ==
    \A p \in ApiProcs :
        /\ fb[p] # "unread" => (val[p] = None /\ calls[p] = 3)
        /\ (FxReturned(p) /\ ~Truthy(ret[p])) => calls[p] >= 1
\* C18: fallback data is never cached: the path on which all attempts fail
\* leaves the cache unchanged, every value in the cache was put there as the
\* result of a successful fetch for its key's range, and a request for the
\* same range after an outage goes to the network again.
C18_FallbackNotCached == [][C18_OnlyFetchedWritten]_vars /\ [](C18_MissGoesToNetwork)

\* A request was served from the fallback file, the cache has no entry for
\* its range, and the next request for that range has fetched.
C18_Witness ==
    \E p \in ApiProcs :
        /\ p < NumRequests
        /\ FxReturned(p) /\ fb[p] = "ok" /\ data[p] = Some(FallbackData)
        /\ pc[p] = "done" /\ pc[p + 1] = "set_val"
        /\ req[p + 1][1] = req[p][1] /\ req[p + 1][2] = req[p][2]
        /\ key[p] \notin DOMAIN cache
        /\ calls[p + 1] = 1 /\ data[p + 1] # None

\* No call of GreenGive.get or GreenGive.set is under way.
NoCacheCallUnderWay ==
    \A p \in Procs : pc[p] \notin GetPcs \cup {"set_val", "set_time", "set_exp"}

\* C19: in a sequential history, whenever no get or set is under way the
\* value store and the expiry store have the same keys.
C19_SameKeys == NoCacheCallUnderWay => DOMAIN cache = DOMAIN cache_expiry

\* After a set of two keys, a get has removed the expired entry of one of
\* them: both stores hold the other key and nothing else.
C19_Witness ==
    /\ NoCacheCallUnderWay
    /\ \E p \in Procs :
          /\ op[p] = "get" /\ pc[p] = "done" /\ Latest(p)
          /\ seen[p] # None /\ t[p] >= seen[p][1]
          /\ DOMAIN cache = Keys \ {key[p]}
          /\ DOMAIN cache_expiry = Keys \ {key[p]}

\* C20: two requests share a cache entry only if their start dates and their
\* end dates are equal: a request that is served from the cache the entry
\* another request fetched and stored has the same date range as that request.
C20_NoForeignData ==
    \A p \in ApiProcs, q \in ApiProcs :
        (/\ p # q /\ FetchedOk(p)
         /\ FxReturned(q) /\ calls[q] = 0 /\ fb[q] = "unread"
         /\ key[q] = key[p]) =>
            /\ req[q][1] = req[p][1]
            /\ req[q][2] = req[p][2]
====
